---- MODULE Spec2Model ----
(***************************************************************************)
(* Model of src/models/scylla_models.rs: the ScyllaManager of the          *)
(* opbnb-place API.  The database is two tables, player (PRIMARY KEY       *)
(* address) and canvas (PRIMARY KEY canvas_part, x, y); the manager        *)
(* serves get_user, get_pixel and update_db to concurrent callers.  Every  *)
(* .await of the code is a point where other callers and the database run. *)
(***************************************************************************)
EXTENDS Integers, FiniteSets, Sequences, TLC

\* ------------------------------------------------------------------ bounds
\* In-range coordinates a request may carry are 0..MaxCoord.
MaxCoord == 1
\* Colors a request may carry are 0..MaxColor (req.color, a u8).
MaxColor == 1
\* The clock (Utc::now().timestamp()) runs over 0..MaxTime.
MaxTime == 1
\* Writes that may be on their way to the database at one time.
MaxNet == 4
\* canvas_dim, as given to try_init.
CanvasDim == 1
\* update_db calls made in one run.
MaxCalls == 2
\* Times the process is started in one run.
MaxStarts == 2
\* The routing is checked for the coordinates 0..MaxRoute and the i32 and
\* u32 limits, and for every canvas_dim in 0..2 * MaxRoute + 1 and two huge ones.
MaxRoute == 2

\* i32::MAX, the largest value i32::try_from accepts.
I32Max == 2147483647

Callers == {"c1", "c2"}
Addresses == {"A", "B"}
None == "None"

\* ----------------------------------------------------------------- u32
\* A u32 is [hi, lo]: its top bit and its low 31 bits (value hi * 2^31 + lo).
U32(hi, lo) == [hi |-> hi, lo |-> lo]

\* a <= b on u32.
U32Le(a, b) == a.hi < b.hi \/ (a.hi = b.hi /\ a.lo <= b.lo)

\* canvas_dim / 2 (u32 integer division).
U32Half(a) == U32(0, a.hi * 1073741824 + (a.lo \div 2))

\* A faulty variant of TryFromU32: the cast `x as i32`, which wraps instead of failing.
TryFromU32Wrapping(x) ==
    [ok |-> TRUE, val |-> IF x.hi = 0 THEN x.lo ELSE x.lo + (-I32Max - 1)]

\* i32::try_from(x: u32): Ok(x) when x <= i32::MAX, else TryFromIntError.
TryFromU32(x) ==
    IF x.hi = 0 /\ x.lo <= I32Max
    THEN [ok |-> TRUE, val |-> x.lo]
    ELSE [ok |-> FALSE, val |-> 0]

\* The u32 values callers pass as x: 0..MaxCoord, and 2^31, which no i32
\* holds; and as y: 0 and 2^31.
XInputs == {U32(0, v) : v \in 0..MaxCoord} \cup {U32(1, 0)}
YInputs == {U32(0, 0), U32(1, 0)}

Colors == 0..MaxColor

\* UpdatePixel: loc.x, loc.y, color, address (an Option).
Requests ==
    [x : XInputs, y : YInputs, color : Colors,
     address : Addresses \cup {None}]

\* ------------------------------------------------------------- routing
\* ScyllaManager.canvas_part.
canvas_part == <<"v_part1", "v_part2", "v_part3", "v_part4">>

\* A faulty variant of UpdatePindex: strict comparison, the boundary goes up.
UpdatePindexStrict(x, y, mid) ==
    CASE U32Le(x, mid) /\ x # mid /\ U32Le(y, mid) /\ y # mid -> 0
      [] U32Le(x, mid) /\ x # mid /\ ~(U32Le(y, mid) /\ y # mid) -> 1
      [] ~(U32Le(x, mid) /\ x # mid) /\ U32Le(y, mid) /\ y # mid -> 2
      [] OTHER -> 3

\* pindex of update_db: match (req.loc.x <= dim_mid, req.loc.y <= dim_mid).
UpdatePindex(x, y, mid) ==
    CASE U32Le(x, mid) /\ U32Le(y, mid) -> 0
      [] U32Le(x, mid) /\ ~U32Le(y, mid) -> 1
      [] ~U32Le(x, mid) /\ U32Le(y, mid) -> 2
      [] ~U32Le(x, mid) /\ ~U32Le(y, mid) -> 3

\* A faulty variant of GetPixelPindex: arms 1 and 2 of the match swapped.
GetPixelPindexSwapped(x, y, mid) ==
    CASE U32Le(x, mid) /\ U32Le(y, mid) -> 0
      [] U32Le(x, mid) /\ ~U32Le(y, mid) -> 2
      [] ~U32Le(x, mid) /\ U32Le(y, mid) -> 1
      [] ~U32Le(x, mid) /\ ~U32Le(y, mid) -> 3

\* pindex of get_pixel: match (x <= dim_mid, y <= dim_mid).
GetPixelPindex(x, y, mid) ==
    CASE U32Le(x, mid) /\ U32Le(y, mid) -> 0
      [] U32Le(x, mid) /\ ~U32Le(y, mid) -> 1
      [] ~U32Le(x, mid) /\ U32Le(y, mid) -> 2
      [] ~U32Le(x, mid) /\ ~U32Le(y, mid) -> 3

\* --------------------------------------------------------------- state
VARIABLES
    dim_mid,      \* ScyllaManager.dim_mid, a u32
    routed,       \* what routing a coordinate gave on the write and read paths
    player,       \* opbnbplace.player: address -> [x, y, color, last_placed]
    canvas,       \* opbnbplace.canvas: <<canvas_part, x, y>> -> pixel_data
    now,          \* the clock Utc::now().timestamp() reads
    calls,        \* how many update_db calls were made so far
    net,          \* the INSERTs executed and not yet applied or lost
    pc,           \* per caller: where its call stands
    req,          \* per caller: the arguments of the call it is in
    last_placed,  \* per caller: update_db's local last_placed
    wr,           \* per caller: what user_update and pixel_update resolved to
    ret,          \* per caller: what its last call returned
    started,      \* history: the clock when the update_db call was entered
    solo,         \* history: no other update_db call, and no write of one,
                  \* was in flight at any time of this update_db call
    prev,         \* history: last_placed of the caller's previous call if that
                  \* was update_db with the same request and returned Ok, else -1
    done,         \* history: the caller's last call if it was update_db and
                  \* returned Ok: its request, last_placed and entry time
    intact,       \* history: the last write applied to the row this call
                  \* wrote is this call's own
    with,         \* history: the callers whose current or last update_db call
                  \* was in flight when this caller's last one returned Ok
    asked,        \* history: the caller's last read, and what its SELECT met
    schema,       \* the database: the keyspace, tables and type that exist
    builder,      \* the process's start: where try_init / try_build stands
    manager,      \* the ScyllaManager try_build returned, if it did
    starts        \* how many times the process was started

vars ==
    <<dim_mid, routed, player, canvas, now, calls, net, pc, req, last_placed, wr, ret,
      started, solo, prev, done, intact, with, asked,
      schema, builder, manager, starts>>

\* The database's schema and the start of the process.
startVars == <<schema, builder, manager, starts>>

histVars == <<started, solo, prev, done, intact, with, asked>>

\* Result<_, VpError> values.
Ok(v) == [tag |-> "Ok", val |-> v]
\* The unit value () of Ok(()).
Unit == << >>

Err(e) == [tag |-> e, val |-> Unit]
NoRet == [tag |-> "None", val |-> Unit]

NoReq == [x |-> U32(0, 0), y |-> U32(0, 0), color |-> 0, address |-> None]
NoWr == [user |-> "none", pixel |-> "none"]
NoIntact == [user |-> FALSE, pixel |-> FALSE]
NoAsked == [op |-> "none", query |-> "none", row |-> FALSE]
NoDone ==
    [ok |-> FALSE, req |-> NoReq, t |-> 0, started |-> 0, solo |-> FALSE, prev |-> -1]

\* The row INSERT INTO opbnbplace.player binds: (address, ix, iy, color,
\* last_placed), keyed by address.
UserRow(ix, iy, color, t) == [x |-> ix, y |-> iy, color |-> color, last_placed |-> t]

\* PixelData { address, color, last_placed }.
PixelData(address, color, t) == [address |-> address, color |-> color, last_placed |-> t]

\* self.session.execute(&self.insert_user, (address, ix, iy, color, last_placed)).
UserUpdate(c, address, ix, iy, color, t) ==
    [c |-> c, tbl |-> "player", live |-> TRUE, key |-> address,
     val |-> UserRow(ix, iy, color, t)]

\* A faulty variant of PixelUpdate: the row is keyed by canvas_part[0] whatever pindex is.
PixelUpdateFirstPart(c, part, ix, iy, data) ==
    [c |-> c, tbl |-> "canvas", live |-> TRUE, key |-> <<canvas_part[1], ix, iy>>,
     val |-> data]

\* A faulty variant of PixelUpdate: iy and ix bound in the wrong order.
PixelUpdateSwappedXY(c, part, ix, iy, data) ==
    [c |-> c, tbl |-> "canvas", live |-> TRUE, key |-> <<part, iy, ix>>,
     val |-> data]

\* self.session.execute(&self.insert_pixel, (canvas_part[pindex], ix, iy, pixel_data)).
PixelUpdate(c, part, ix, iy, data) ==
    [c |-> c, tbl |-> "canvas", live |-> TRUE, key |-> <<part, ix, iy>>,
     val |-> data]

\* A faulty variant of Upsert: INSERT ... IF NOT EXISTS, which keeps an existing row.
UpsertIfNotExists(table, key, val) ==
    [k \in DOMAIN table \cup {key} |-> IF k \in DOMAIN table THEN table[k] ELSE val]

\* A faulty variant of Upsert: the columns of a row are written one by one and
\* an existing column keeps the greater of the old and the new number.
UpsertPerColumn(table, key, val) ==
    [k \in DOMAIN table \cup {key} |->
        IF k # key THEN table[k]
        ELSE IF key \notin DOMAIN table THEN val
        ELSE [f \in DOMAIN val |->
                IF f = "address" \/ val[f] >= table[key][f] THEN val[f]
                ELSE table[key][f]]]

\* An upsert: INSERT replaces the row with the same primary key, or adds it.
Upsert(table, key, val) ==
    [k \in DOMAIN table \cup {key} |-> IF k = key THEN val ELSE table[k]]

\* A faulty variant of TryJoin: Ok as soon as one write is Ok.
TryJoinAny(u, p) ==
    IF u = "ok" \/ p = "ok" THEN "ok"
    ELSE IF u = "err" \/ p = "err" THEN "err" ELSE "pending"

\* tokio::try_join!(user_update, pixel_update): Err as soon as one of the two
\* resolves to Err, Ok once both resolved to Ok, pending otherwise.
TryJoin(u, p) ==
    IF u = "err" \/ p = "err" THEN "err"
    ELSE IF u = "ok" /\ p = "ok" THEN "ok" ELSE "pending"

\* A faulty variant of FirstRowTyped: an empty result decoded as a type error.
FirstRowTypedNoEmpty(rows, shape) ==
    IF rows # <<>> /\ DOMAIN rows[1] = shape THEN Ok(rows[1]) ELSE Err("ScyllaTypeErr")

\* rows.first_row_typed::<T>() and the match on it in get_user and get_pixel:
\* no row is RowsEmpty, a row of T's shape is Ok, any other row a type error.
FirstRowTyped(rows, shape) ==
    IF rows = <<>> THEN Err("RowsEmpty")
    ELSE IF DOMAIN rows[1] = shape THEN Ok(rows[1])
    ELSE Err("ScyllaTypeErr")

\* struct UserDetails and struct PixelData: the columns a row must have.
UserDetails == {"address", "x", "y", "color", "last_placed"}
PixelDataFields == {"address", "color", "last_placed"}

TypeOK ==
    /\ dim_mid.hi = 0 /\ dim_mid.lo >= 0 /\ dim_mid.lo <= I32Max
    /\ now \in 0..MaxTime
    /\ pc \in [Callers -> {"idle", "join"}]
    /\ \A m \in net : m.c \in Callers \cup {"none"} /\ m.tbl \in {"player", "canvas"}
    /\ DOMAIN player \subseteq Addresses
    /\ Cardinality(net) <= MaxNet

NoRouted == [upd |-> -1, get |-> -1, wkey |-> << >>, rkey |-> << >>]

\* Everything but the manager's dim_mid and the callers' arguments, as it is
\* when try_build returns.
InitRest ==
    /\ routed = NoRouted
    /\ player = << >>
    /\ canvas = << >>
    /\ now = 0
    /\ calls = 0
    /\ net = {}
    /\ pc = [c \in Callers |-> "idle"]
    /\ last_placed = [c \in Callers |-> 0]
    /\ wr = [c \in Callers |-> NoWr]
    /\ ret = [c \in Callers |-> NoRet]
    /\ started = [c \in Callers |-> 0]
    /\ solo = [c \in Callers |-> FALSE]
    /\ prev = [c \in Callers |-> -1]
    /\ done = [c \in Callers |-> NoDone]
    /\ intact = [c \in Callers |-> NoIntact]
    /\ with = [c \in Callers |-> {}]
    /\ asked = [c \in Callers |-> NoAsked]

\* The four queries of init_table (lines 24, 26-28, 32, 44), in their order:
\* what each creates.
InitTableSteps == <<"keyspace", "player", "pixel_data", "canvas">>

\* The four statements try_build prepares (lines 50-64), in their order.
PrepareSteps == <<"insert_user", "get_user", "insert_pixel", "get_pixel">>

SchemaObjects == {InitTableSteps[k] : k \in 1..4}
Statements == {PrepareSteps[k] : k \in 1..4}

\* No ScyllaManager, and the one line 65 builds from the prepared statements.
NoManager == [built |-> FALSE, stmts |-> {}]
ScyllaManager(stmts) == [built |-> TRUE, stmts |-> stmts]

\* The start of a process at position p, about to run step k of it, holding
\* the statements prepared so far.
Builder(p, k, stmts) == [pc |-> p, k |-> k, stmts |-> stmts]

\* The state try_build leaves when it returns Ok(ScyllaManager) in the first
\* start of the process.
Built ==
    /\ schema = SchemaObjects
    /\ builder = Builder("built", 0, {})
    /\ manager = ScyllaManager(Statements)
    /\ starts = 1

\* try_init (line 18) and try_build (lines 65-73): dim_mid = canvas_dim / 2.
Init ==
    /\ dim_mid = U32Half(U32(0, CanvasDim))
    /\ req = [c \in Callers |-> NoReq]
    /\ InitRest
    /\ Built

\* ------------------------------------------------------------ update_db
\* A faulty variant of Validate: the address is not checked.
ValidateNoAddress(r) ==
    IF ~TryFromU32(r.x).ok \/ ~TryFromU32(r.y).ok THEN "TryFromIntError" ELSE "Ok"

\* Lines 98-102 of update_db: the conversions of x and y, then the address.
Validate(r) ==
    IF ~TryFromU32(r.x).ok \/ ~TryFromU32(r.y).ok THEN "TryFromIntError"
    ELSE IF r.address = None THEN "InvalidUser"
    ELSE "Ok"

\* A faulty variant of UpdateDbWrites: the cell is stamped with a later clock reading
\* than the player row.
UpdateDbWritesTwoClocks(c, r, mid, t) ==
    { UserUpdate(c, r.address, TryFromU32(r.x).val, TryFromU32(r.y).val, r.color, t),
      PixelUpdate(c, canvas_part[UpdatePindex(r.x, r.y, mid) + 1],
                  TryFromU32(r.x).val, TryFromU32(r.y).val,
                  PixelData(r.address, r.color, t + 1)) }

\* Lines 106-125 of update_db: the two INSERTs it executes, for a request that
\* passed Validate, with last_placed = t.
UpdateDbWrites(c, r, mid, t) ==
    { UserUpdate(c, r.address, TryFromU32(r.x).val, TryFromU32(r.y).val, r.color, t),
      PixelUpdate(c, canvas_part[UpdatePindex(r.x, r.y, mid) + 1],
                  TryFromU32(r.x).val, TryFromU32(r.y).val,
                  PixelData(r.address, r.color, t)) }

Writing(c) == pc[c] = "join"

\* The locals of a call end with it.
DropLocals(c) ==
    /\ req' = [req EXCEPT ![c] = NoReq]
    /\ last_placed' = [last_placed EXCEPT ![c] = 0]
    /\ wr' = [wr EXCEPT ![c] = NoWr]
    /\ started' = [started EXCEPT ![c] = 0]
    /\ solo' = [solo EXCEPT ![c] = FALSE]
    /\ prev' = [prev EXCEPT ![c] = -1]

\* Entering a call ends what the history keeps of the caller's last call.
Forget(c) ==
    /\ done' = [done EXCEPT ![c] = NoDone]
    /\ intact' = [intact EXCEPT ![c] = NoIntact]
    /\ with' = [d \in Callers |-> IF d = c THEN {} ELSE with[d] \ {c}]

\* A caller calls update_db(&req); lines 98-126 up to the first suspension:
\* validate, read the clock once, build the two writes and hand both to
\* try_join!; or return the error of the validation.
UpdateDb(c, r) ==
    /\ pc[c] = "idle"
    /\ calls < MaxCalls
    /\ calls' = calls + 1
    /\ Cardinality(net) + 2 <= MaxNet
    /\ IF Validate(r) # "Ok"
       THEN /\ ret' = [ret EXCEPT ![c] = Err(Validate(r))]
            /\ UNCHANGED <<pc, req, last_placed, wr, net, started, solo, prev>>
       ELSE /\ ret' = [ret EXCEPT ![c] = NoRet]
            /\ pc' = [pc EXCEPT ![c] = "join"]
            /\ req' = [req EXCEPT ![c] = r]
            /\ last_placed' = [last_placed EXCEPT ![c] = now]
            /\ net' = net \cup UpdateDbWrites(c, r, dim_mid, now)
            /\ wr' = [wr EXCEPT ![c] = [user |-> "pending", pixel |-> "pending"]]
            /\ started' = [started EXCEPT ![c] = now]
            /\ solo' = [d \in Callers |->
                         IF d = c THEN net = {} /\ \A e \in Callers \ {c} : ~Writing(e)
                         ELSE FALSE]
            /\ prev' = [prev EXCEPT ![c] =
                         IF done[c].ok /\ done[c].req = r THEN done[c].t ELSE -1]
    /\ Forget(c)
    /\ asked' = [asked EXCEPT ![c] = NoAsked]
    /\ UNCHANGED startVars
    /\ UNCHANGED <<dim_mid, routed, player, canvas, now>>

\* The future of try_join! that write m is: user_update or pixel_update.
Fut(m) == IF m.tbl = "player" THEN "user" ELSE "pixel"

\* The request whose rows the history follows for caller d, if it has one.
HasTracked(d) == pc[d] = "join" \/ done[d].ok
Tracked(d) == IF pc[d] = "join" THEN req[d] ELSE done[d].req

\* Does write m go to a row of caller d's update_db call: its address, or
\* its coordinate (in whatever partition)?
Touches(m, d) ==
    /\ HasTracked(d)
    /\ IF m.tbl = "player"
       THEN m.key = Tracked(d).address
       ELSE /\ m.key[2] = TryFromU32(Tracked(d).x).val
            /\ m.key[3] = TryFromU32(Tracked(d).y).val

Own(m, d) == m.c = d /\ m.live

\* Write m once nobody waits for its answer.
Orphan(m) == [m EXCEPT !.live = FALSE, !.c = "none"]

\* The database applies write m; its caller, if still waiting, gets Ok.
DbApply(m) ==
    /\ m \in net
    /\ net' = net \ {m}
    /\ IF m.tbl = "player"
       THEN player' = Upsert(player, m.key, m.val) /\ UNCHANGED canvas
       ELSE canvas' = Upsert(canvas, m.key, m.val) /\ UNCHANGED player
    /\ wr' = IF m.live THEN [wr EXCEPT ![m.c][Fut(m)] = "ok"] ELSE wr
    /\ intact' = [d \in Callers |->
                   IF Own(m, d) THEN [intact[d] EXCEPT ![Fut(m)] = TRUE]
                   ELSE IF Touches(m, d) THEN [intact[d] EXCEPT ![Fut(m)] = FALSE]
                   ELSE intact[d]]
    /\ UNCHANGED startVars
    /\ UNCHANGED <<dim_mid, routed, now, calls, pc, req, last_placed, ret>>
    /\ UNCHANGED <<started, solo, prev, done, with, asked>>

\* Write m fails without being applied; its caller gets the error.
DbReject(m) ==
    /\ m \in net /\ m.live
    /\ net' = net \ {m}
    /\ wr' = [wr EXCEPT ![m.c][Fut(m)] = "err"]
    /\ UNCHANGED startVars
    /\ UNCHANGED <<dim_mid, routed, player, canvas, now, calls, pc, req, last_placed, ret>>
    /\ UNCHANGED histVars

\* Write m times out: its caller gets the error, the write may still land.
DbTimeout(m) ==
    /\ m \in net /\ m.live
    /\ net' = (net \ {m}) \cup {Orphan(m)}
    /\ wr' = [wr EXCEPT ![m.c][Fut(m)] = "err"]
    /\ UNCHANGED startVars
    /\ UNCHANGED <<dim_mid, routed, player, canvas, now, calls, pc, req, last_placed, ret>>
    /\ UNCHANGED histVars

\* A write nobody waits for any more never reaches the database.
DbLose(m) ==
    /\ m \in net /\ ~m.live
    /\ net' = net \ {m}
    /\ UNCHANGED startVars
    /\ UNCHANGED <<dim_mid, routed, player, canvas, now, calls, pc, req, last_placed, wr, ret>>
    /\ UNCHANGED histVars

\* Lines 126-127: try_join! resolves and update_db returns.  On Err the
\* future still pending is dropped; the write it executed is not recalled.
JoinReturn(c) ==
    /\ pc[c] = "join"
    /\ TryJoin(wr[c].user, wr[c].pixel) # "pending"
    /\ pc' = [pc EXCEPT ![c] = "idle"]
    /\ net' = {IF m.c = c THEN Orphan(m) ELSE m : m \in net}
    /\ IF TryJoin(wr[c].user, wr[c].pixel) = "ok"
       THEN /\ ret' = [ret EXCEPT ![c] = Ok(Unit)]
            /\ done' = [done EXCEPT ![c] =
                         [ok |-> TRUE, req |-> req[c], t |-> last_placed[c],
                          started |-> started[c],
                          solo |-> solo[c], prev |-> prev[c]]]
            /\ with' = [with EXCEPT ![c] = {d \in Callers \ {c} : Writing(d)}]
            /\ UNCHANGED intact
       ELSE /\ ret' = [ret EXCEPT ![c] = Err("ScyllaQueryErr")]
            /\ intact' = [intact EXCEPT ![c] = NoIntact]
            /\ UNCHANGED <<done, with>>
    /\ DropLocals(c)
    /\ UNCHANGED asked
    /\ UNCHANGED startVars
    /\ UNCHANGED <<dim_mid, routed, player, canvas, now, calls>>

\* ---------------------------------------------------------------- reads
\* The match of get_user (lines 91-95) on first_row_typed::<UserDetails>().
GetUserResult(rows) ==
    LET res == FirstRowTyped(rows, UserDetails) IN
    CASE res.tag = "Ok" -> Ok(res.val)
      [] res.tag = "RowsEmpty" -> Err("InvalidUser")
      [] OTHER -> Err("ScyllaTypeErr")

\* A faulty variant of GetPixelResult: the arms of get_user's match, where no
\* row is InvalidUser.
GetPixelResultAsUser(rows) ==
    LET res == FirstRowTyped(rows, PixelDataFields) IN
    CASE res.tag = "Ok" -> Ok(res.val)
      [] res.tag = "RowsEmpty" -> Err("InvalidUser")
      [] OTHER -> Err("ScyllaTypeErr")

\* The match of get_pixel (lines 143-147) on first_row_typed::<(PixelData,)>().
GetPixelResult(rows) ==
    LET res == FirstRowTyped(rows, PixelDataFields) IN
    CASE res.tag = "Ok" -> Ok(res.val)
      [] res.tag = "RowsEmpty" -> Err("NoPixelData")
      [] OTHER -> Err("ScyllaTypeErr")

\* SELECT address, x, y, color, last_placed FROM player WHERE address = ?
SelectUser(address) ==
    IF address \in DOMAIN player
    THEN << [address |-> address, x |-> player[address].x, y |-> player[address].y,
             color |-> player[address].color,
             last_placed |-> player[address].last_placed] >>
    ELSE << >>

\* SELECT data FROM canvas WHERE canvas_part = ? AND x = ? AND y = ?
SelectPixel(part, ix, iy) ==
    IF <<part, ix, iy>> \in DOMAIN canvas
    THEN << canvas[<<part, ix, iy>>] >>
    ELSE << >>

\* The key get_pixel(x, y) binds (line 140): (canvas_part[pindex], ix, iy).
GetPixelKey(x, y, mid) ==
    <<canvas_part[GetPixelPindex(x, y, mid) + 1], TryFromU32(x).val, TryFromU32(y).val>>

\* get_pixel(x, y) with the SELECT answered (lines 130-147): the conversions,
\* the routing, the lookup and the match.
GetPixelAnswer(x, y, mid) ==
    IF ~TryFromU32(x).ok \/ ~TryFromU32(y).ok THEN Err("TryFromIntError")
    ELSE LET key == GetPixelKey(x, y, mid) IN
         GetPixelResult(SelectPixel(key[1], key[2], key[3]))

\* get_user(&address) with the SELECT answered (lines 89-95).
GetUserAnswer(address) == GetUserResult(SelectUser(address))

\* What the history keeps of a read: the operation, whether its SELECT was
\* answered, failed or never made, and whether an answered SELECT met a row.
Asked(op, query, row) == [op |-> op, query |-> query, row |-> row]

\* Some partition of the canvas holds a row for (ix, iy).
HasCell(ix, iy) == \E k \in DOMAIN canvas : k[2] = ix /\ k[3] = iy

\* A read is one step, taken when the database answers (or fails) its SELECT.
ReadReturns(c, result, h) ==
    /\ pc[c] = "idle"
    /\ ret' = [ret EXCEPT ![c] = result]
    /\ Forget(c)
    /\ asked' = [asked EXCEPT ![c] = h]
    /\ UNCHANGED startVars
    /\ UNCHANGED <<dim_mid, routed, player, canvas, now, calls, net, pc, req, last_placed, wr>>
    /\ UNCHANGED <<started, solo, prev>>

\* get_user(&address), its SELECT answered.
GetUser(c, address) ==
    ReadReturns(c, GetUserAnswer(address),
                Asked("get_user", "answered", address \in DOMAIN player))

\* get_user(&address), its SELECT failed: `.await?` returns the error (line 89).
GetUserFail(c, address) ==
    ReadReturns(c, Err("ScyllaQueryErr"), Asked("get_user", "failed", FALSE))

\* get_pixel(x, y), its SELECT answered, or never made (lines 130-131).
GetPixel(c, x, y) ==
    ReadReturns(c, GetPixelAnswer(x, y, dim_mid),
                IF TryFromU32(x).ok /\ TryFromU32(y).ok
                THEN Asked("get_pixel", "answered",
                           HasCell(TryFromU32(x).val, TryFromU32(y).val))
                ELSE Asked("get_pixel", "unasked", FALSE))

\* get_pixel(x, y), its SELECT failed: `.await?` returns the error (line 141).
GetPixelFail(c, x, y) ==
    /\ TryFromU32(x).ok /\ TryFromU32(y).ok
    /\ ReadReturns(c, Err("ScyllaQueryErr"), Asked("get_pixel", "failed", FALSE))

\* A second passes.
Tick ==
    /\ now < MaxTime
    /\ now' = now + 1
    /\ UNCHANGED startVars
    /\ UNCHANGED <<dim_mid, routed, player, canvas, calls, net, pc, req, last_placed, wr, ret>>
    /\ UNCHANGED histVars

Next ==
    \/ \E c \in Callers, r \in Requests : UpdateDb(c, r)
    \/ \E m \in net : DbApply(m)
    \/ \E m \in net : DbReject(m)
    \/ \E m \in net : DbTimeout(m)
    \/ \E m \in net : DbLose(m)
    \/ \E c \in Callers : JoinReturn(c)
    \/ Tick

\* Concurrent callers of update_db, and the database.
Spec == Init /\ [][Next]_vars

\* One caller of update_db, one caller of get_user and get_pixel, and the
\* database.
NextRead ==
    \/ \E r \in Requests : UpdateDb("c1", r)
    \/ \E m \in net : DbApply(m)
    \/ \E m \in net : DbReject(m)
    \/ \E m \in net : DbTimeout(m)
    \/ \E m \in net : DbLose(m)
    \/ JoinReturn("c1")
    \/ \E a \in Addresses : GetUser("c2", a)
    \/ \E a \in Addresses : GetUserFail("c2", a)
    \/ \E x \in XInputs, y \in YInputs : GetPixel("c2", x, y)
    \/ \E x \in XInputs, y \in YInputs : GetPixelFail("c2", x, y)
    \/ Tick

SpecRead == Init /\ [][NextRead]_vars

\* -------------------------------------------------------------- routing
\* The coordinates and canvas dimensions the routing is applied to.
RouteCoords ==
    {U32(0, v) : v \in 0..MaxRoute}
        \cup {U32(0, I32Max - 1), U32(0, I32Max), U32(1, 0), U32(1, I32Max)}
RouteDims ==
    {U32(0, v) : v \in 0..(2 * MaxRoute + 1)} \cup {U32(1, 0), U32(1, I32Max)}

InitRoute ==
    /\ \E canvas_dim \in RouteDims : dim_mid = U32Half(canvas_dim)
    /\ \E x \in RouteCoords, y \in RouteCoords :
         req = [c \in Callers |-> [NoReq EXCEPT !.x = x, !.y = y, !.address = "A"]]
    /\ InitRest
    /\ Built

\* The write path routes req: the pindex of lines 111-116, and the key the
\* cell INSERT binds if update_db gets that far.
RouteUpdate(c) ==
    /\ routed.upd = -1
    /\ routed' = [routed EXCEPT
         !.upd = UpdatePindex(req[c].x, req[c].y, dim_mid),
         !.wkey = IF Validate(req[c]) = "Ok"
                  THEN (CHOOSE m \in UpdateDbWrites(c, req[c], dim_mid, now) :
                          m.tbl = "canvas").key
                  ELSE << >>]
    /\ UNCHANGED startVars
    /\ UNCHANGED <<dim_mid, player, canvas, now, calls, net, pc, req, last_placed, wr, ret>>
    /\ UNCHANGED histVars

\* The read path routes the same coordinate: the pindex of lines 132-137, and
\* the key the SELECT binds if get_pixel gets that far.
RouteGetPixel(c) ==
    /\ routed.get = -1
    /\ routed' = [routed EXCEPT
         !.get = GetPixelPindex(req[c].x, req[c].y, dim_mid),
         !.rkey = IF TryFromU32(req[c].x).ok /\ TryFromU32(req[c].y).ok
                  THEN GetPixelKey(req[c].x, req[c].y, dim_mid)
                  ELSE << >>]
    /\ UNCHANGED startVars
    /\ UNCHANGED <<dim_mid, player, canvas, now, calls, net, pc, req, last_placed, wr, ret>>
    /\ UNCHANGED histVars

NextRoute ==
    \/ RouteUpdate("c1")
    \/ RouteGetPixel("c1")

SpecRoute == InitRoute /\ [][NextRoute]_vars

\* -------------------------------------------------------------- startup
\* What a CREATE needs to exist: a table or type its keyspace, the canvas
\* table also the type of its data column (frozen<pixel_data>, line 44).
Needs(obj) ==
    CASE obj = "keyspace" -> {}
      [] obj = "player" -> {"keyspace"}
      [] obj = "pixel_data" -> {"keyspace"}
      [] obj = "canvas" -> {"keyspace", "pixel_data"}

\* A faulty variant of CreateIfNotExists: CREATE without IF NOT EXISTS, an
\* error when the object exists.
CreateOnce(obj, sch) ==
    IF Needs(obj) \subseteq sch /\ obj \notin sch
    THEN [ok |-> TRUE, schema |-> sch \cup {obj}]
    ELSE [ok |-> FALSE, schema |-> sch]

\* CREATE KEYSPACE / TABLE / TYPE IF NOT EXISTS, answered by the database:
\* the object exists afterwards, and what existed is left as it was.
CreateIfNotExists(obj, sch) ==
    IF Needs(obj) \subseteq sch
    THEN [ok |-> TRUE, schema |-> sch \cup {obj}]
    ELSE [ok |-> FALSE, schema |-> sch]

\* The table a statement is prepared against.
TableOf(stmt) == IF stmt \in {"insert_user", "get_user"} THEN "player" ELSE "canvas"

\* session.prepare(stmt), answered by the database: Ok when the table exists.
PrepareStmt(stmt, sch) == TableOf(stmt) \in sch

\* A faulty variant of QuestionMark: the error of a step is dropped.
QuestionMarkIgnored(ok) == "continue"

\* `.await?`: go on with the value on Ok, return the error on Err.
QuestionMark(ok) == IF ok THEN "continue" ELSE "return"

\* try_init (lines 16-20): build the session, dim_mid = canvas_dim / 2; the
\* builder then runs try_build, which begins with init_table (line 49).
TryInit(ok) ==
    /\ builder.pc = "try_init"
    /\ IF QuestionMark(ok) = "continue"
       THEN /\ dim_mid' = U32Half(U32(0, CanvasDim))
            /\ builder' = Builder("init_table", 1, {})
       ELSE /\ builder' = Builder("failed", 0, {})
            /\ UNCHANGED dim_mid
    /\ UNCHANGED <<schema, manager, starts>>
    /\ UNCHANGED <<routed, player, canvas, now, calls, net, pc, req, last_placed, wr, ret>>
    /\ UNCHANGED histVars

\* One query of init_table (lines 24-44): answered by the database, failed
\* without effect, or timed out after the database carried it out.
InitTable(outcome) ==
    /\ builder.pc = "init_table"
    /\ LET res == CreateIfNotExists(InitTableSteps[builder.k], schema)
           ok == outcome = "answered" /\ res.ok
       IN  /\ schema' = IF outcome = "failed" THEN schema ELSE res.schema
           /\ builder' =
                 IF QuestionMark(ok) = "continue"
                 THEN IF builder.k < 4
                      THEN Builder("init_table", builder.k + 1, {})
                      ELSE Builder("prepare", 1, {})
                 ELSE Builder("failed", 0, {})
    /\ UNCHANGED <<manager, starts>>
    /\ UNCHANGED <<dim_mid, routed, player, canvas, now, calls, net, pc, req, last_placed, wr, ret>>
    /\ UNCHANGED histVars

\* One preparation of try_build (lines 50-64), answered or failed; after the
\* fourth, Ok(ScyllaManager { ... }) (lines 65-73).
Prepare(outcome) ==
    /\ builder.pc = "prepare"
    /\ LET stmt == PrepareSteps[builder.k]
           ok == outcome = "answered" /\ PrepareStmt(stmt, schema)
           stmts == builder.stmts \cup (IF ok THEN {stmt} ELSE {})
       IN  IF QuestionMark(ok) = "continue"
           THEN IF builder.k < 4
                THEN /\ builder' = Builder("prepare", builder.k + 1, stmts)
                     /\ UNCHANGED manager
                ELSE /\ builder' = Builder("built", 0, {})
                     /\ manager' = ScyllaManager(stmts)
           ELSE /\ builder' = Builder("failed", 0, {})
                /\ UNCHANGED manager
    /\ UNCHANGED <<schema, starts>>
    /\ UNCHANGED <<dim_mid, routed, player, canvas, now, calls, net, pc, req, last_placed, wr, ret>>
    /\ UNCHANGED histVars

\* The process ends, with or without a manager, and is started again; the
\* database keeps its schema and rows.
Restart ==
    /\ builder.pc \in {"built", "failed"}
    /\ starts < MaxStarts
    /\ \A c \in Callers : pc[c] = "idle"
    /\ starts' = starts + 1
    /\ builder' = Builder("try_init", 0, {})
    /\ manager' = NoManager
    /\ UNCHANGED schema
    /\ UNCHANGED <<dim_mid, routed, player, canvas, now, calls, net, pc, req, last_placed, wr, ret>>
    /\ UNCHANGED histVars

\* get_user, get_pixel and update_db are methods of ScyllaManager (line 87):
\* a call needs the manager try_build returned.
Serving == manager.built

\* A process that starts on an empty database.
InitStart ==
    /\ dim_mid = U32(0, 0)
    /\ req = [c \in Callers |-> NoReq]
    /\ InitRest
    /\ schema = {}
    /\ builder = Builder("try_init", 0, {})
    /\ manager = NoManager
    /\ starts = 1

NextStart ==
    \/ \E ok \in BOOLEAN : TryInit(ok)
    \/ \E outcome \in {"answered", "failed", "timeout"} : InitTable(outcome)
    \/ \E outcome \in {"answered", "failed"} : Prepare(outcome)
    \/ Restart
    \/ \E r \in Requests : Serving /\ UpdateDb("c1", r)
    \/ \E m \in net : DbApply(m)
    \/ \E m \in net : DbReject(m)
    \/ \E m \in net : DbTimeout(m)
    \/ \E m \in net : DbLose(m)
    \/ JoinReturn("c1")
    \/ \E a \in Addresses : Serving /\ GetUser("c1", a)
    \/ \E x \in XInputs, y \in YInputs : Serving /\ GetPixel("c1", x, y)

\* The start of the process, its restarts, and one caller of the manager.
SpecStart == InitStart /\ [][NextStart]_vars

\* --------------------------------------------------------------- claims
\* a > b on u32, by value.
U32Gt(a, b) == a.hi > b.hi \/ (a.hi = b.hi /\ a.lo > b.lo)

\* The quadrant of (x, y): 1 when x <= mid and y <= mid, 2 when x <= mid and
\* y > mid, 3 when x > mid and y <= mid, 4 when x > mid and y > mid.
Quadrant(x, y, mid) ==
    1 + (IF U32Gt(x, mid) THEN 2 ELSE 0) + (IF U32Gt(y, mid) THEN 1 ELSE 0)

QuadrantLabel(x, y, mid) ==
    CASE Quadrant(x, y, mid) = 1 -> "v_part1"
      [] Quadrant(x, y, mid) = 2 -> "v_part2"
      [] Quadrant(x, y, mid) = 3 -> "v_part3"
      [] Quadrant(x, y, mid) = 4 -> "v_part4"

\* C7: whatever x, y and dim_mid are, the pindex update_db computes and the
\* pindex get_pixel computes are the quadrant of (x, y), and the label either
\* binds is that quadrant's v_part; a coordinate equal to dim_mid on an axis
\* is in the lower quadrant on that axis.
C7_QuadrantRule ==
    \A c \in Callers :
        LET x == req[c].x
            y == req[c].y
        IN  /\ routed.upd # -1 => routed.upd + 1 = Quadrant(x, y, dim_mid)
            /\ routed.get # -1 => routed.get + 1 = Quadrant(x, y, dim_mid)
            /\ routed.wkey # << >> => routed.wkey[1] = QuadrantLabel(x, y, dim_mid)
            /\ routed.rkey # << >> => routed.rkey[1] = QuadrantLabel(x, y, dim_mid)
            /\ (routed.upd # -1 /\ x = dim_mid) => routed.upd \in {0, 1}
            /\ (routed.upd # -1 /\ y = dim_mid) => routed.upd \in {0, 2}

\* C7's case: a coordinate on the boundary of x and above it on y was routed
\* by both paths, with a dim_mid that is not 0.
C7_Witness ==
    /\ routed.upd = 1 /\ routed.get = 1
    /\ req["c1"].x = dim_mid /\ dim_mid.lo > 0
    /\ routed.wkey # << >>

\* C8: for every coordinate and dim_mid, the key under which update_db writes
\* the cell is the key under which get_pixel looks it up: same partition
\* label, same x, same y.
C8_RoutingSymmetry ==
    /\ (routed.upd # -1 /\ routed.get # -1)
          => canvas_part[routed.upd + 1] = canvas_part[routed.get + 1]
    /\ (routed.wkey # << >> /\ routed.rkey # << >>) => routed.wkey = routed.rkey
    /\ (routed.upd # -1 /\ routed.get # -1) => ((routed.wkey = << >>) <=> (routed.rkey = << >>))

\* C8's case: a coordinate of the third quadrant was routed by both paths.
C8_Witness ==
    /\ routed.wkey # << >> /\ routed.rkey # << >>
    /\ routed.wkey[1] = "v_part3"

\* The rows a request that passed validation writes, with last_placed = t.
RowOfUser(r, t) ==
    [x |-> r.x.lo, y |-> r.y.lo, color |-> r.color, last_placed |-> t]
RowOfCell(r, t) == [address |-> r.address, color |-> r.color, last_placed |-> t]

\* The keys of the cell rows at coordinate (x, y), over all partitions.
CellsAt(table, r) == {k \in DOMAIN table : k[2] = r.x.lo /\ k[3] = r.y.lo}

InRange(r) == ~U32Gt(r.x, U32(0, I32Max)) /\ ~U32Gt(r.y, U32(0, I32Max))

\* update_db of caller c returns in this step.
Returns(c) == pc[c] = "join" /\ pc'[c] = "idle"

\* C1: when an update_db call returns Ok and no other update_db call was in
\* flight during it (a call being in flight until it has returned and no
\* write of it is on its way to the database any more), then at the moment
\* of the return the player row of its address is (x, y, color, t), there is
\* a cell row for (x, y), and every cell row for (x, y) is (address, color, t),
\* with t the one last_placed of the call.
C1_SoloReturnAgrees ==
    [][\A c \in Callers :
         (Returns(c) /\ ret'[c].tag = "Ok" /\ solo[c]) =>
            /\ req[c].address \in DOMAIN player'
            /\ player'[req[c].address] = RowOfUser(req[c], last_placed[c])
            /\ CellsAt(canvas', req[c]) # {}
            /\ \A k \in CellsAt(canvas', req[c]) :
                   canvas'[k] = RowOfCell(req[c], last_placed[c])
            /\ \A k \in CellsAt(canvas', req[c]) :
                   canvas'[k].last_placed = player'[req[c].address].last_placed
      ]_vars

\* C1's case: a call that ran alone has returned Ok, after an earlier call
\* had written the same rows.
C1_Witness ==
    \E c \in Callers :
        /\ pc[c] = "idle" /\ ret[c].tag = "Ok"
        /\ done[c].ok /\ done[c].solo
        /\ calls = 2
        /\ player[done[c].req.address] = RowOfUser(done[c].req, done[c].t)
        /\ done[c].t > 0

\* C2: update_db returns Ok exactly when user_update and pixel_update both
\* resolved to Ok; when either resolved to an error it returns the query
\* error, whatever the other did.
C2_OkOnlyIfBoth ==
    [][\A c \in Callers :
         Returns(c) =>
            /\ ret'[c].tag = "Ok" <=> (wr[c].user = "ok" /\ wr[c].pixel = "ok")
            /\ (wr[c].user = "err" \/ wr[c].pixel = "err")
                  => ret'[c].tag = "ScyllaQueryErr"
            /\ ret'[c].tag \in {"Ok", "ScyllaQueryErr"}
      ]_vars

\* C2's case: the only call made so far has returned the error although its
\* player write was applied; its cell write was not.
C2_Witness ==
    \E c \in Callers :
        /\ pc[c] = "idle" /\ ret[c].tag = "ScyllaQueryErr"
        /\ calls = 1 /\ net = {}
        /\ DOMAIN player # {} /\ DOMAIN canvas = {}

\* C3: a call of update_db whose x or y is above 2^31 - 1 returns the
\* conversion error in the same step, and that step puts no write on its way
\* and changes neither table.
C3_RangeErrorNoWrite ==
    [][\A c \in Callers, r \in Requests :
         (UpdateDb(c, r) /\ ~InRange(r)) =>
            /\ ret'[c].tag = "TryFromIntError"
            /\ pc'[c] = "idle"
            /\ net' = net
            /\ player' = player /\ canvas' = canvas
      ]_vars

\* C3's case: a call returned the conversion error while the tables held
\* rows and writes of another call were on their way.
C3_Witness ==
    \E c \in Callers :
        /\ ret[c].tag = "TryFromIntError" /\ pc[c] = "idle"
        /\ net # {} /\ DOMAIN player # {}

\* C4: a call of update_db whose coordinates are in range and whose address
\* is absent returns InvalidUser in the same step, and that step puts no
\* write on its way and changes neither table.
C4_NoAddressNoWrite ==
    [][\A c \in Callers, r \in Requests :
         (UpdateDb(c, r) /\ InRange(r) /\ r.address = None) =>
            /\ ret'[c].tag = "InvalidUser"
            /\ pc'[c] = "idle"
            /\ net' = net
            /\ player' = player /\ canvas' = canvas
      ]_vars

\* C4's case: a call returned InvalidUser while the tables held rows and
\* writes of another call were on their way.
C4_Witness ==
    \E c \in Callers :
        /\ ret[c].tag = "InvalidUser" /\ pc[c] = "idle"
        /\ net # {} /\ DOMAIN canvas # {}

\* Two calls that both returned Ok, the second returning while the first
\* was still in flight or the other way round.
Concurrent(c, d) ==
    /\ c # d /\ done[c].ok /\ done[d].ok
    /\ (d \in with[c] \/ c \in with[d])

SameCell(r, q) == r.x = q.x /\ r.y = q.y

\* C5: when two concurrent update_db calls to the same coordinate with
\* different addresses have both returned Ok, whatever the order in which
\* their four writes were applied, there is one cell row for the coordinate,
\* it carries the address of one of the two calls, its color and timestamp
\* are the ones of that call, and the player row of that address has the
\* call's x, y, color and the cell's timestamp.
C5_OneWinnerConsistent ==
    \A c, d \in Callers :
        (Concurrent(c, d) /\ SameCell(done[c].req, done[d].req)
           /\ done[c].req.address # done[d].req.address) =>
            /\ Cardinality(CellsAt(canvas, done[c].req)) = 1
            /\ \A k \in CellsAt(canvas, done[c].req) :
                 /\ canvas[k].address \in {done[c].req.address, done[d].req.address}
                 /\ \A w \in {c, d} :
                      canvas[k].address = done[w].req.address =>
                        /\ canvas[k] = RowOfCell(done[w].req, done[w].t)
                        /\ done[w].req.address \in DOMAIN player
                        /\ player[done[w].req.address] =
                              RowOfUser(done[w].req, canvas[k].last_placed)

\* C5's case: two concurrent calls to one coordinate, different in address,
\* color and timestamp, have both returned Ok, and the cell carries the
\* address of the one that returned first.
C5_Witness ==
    \E c, d \in Callers :
        /\ Concurrent(c, d) /\ d \in with[c]
        /\ SameCell(done[c].req, done[d].req)
        /\ done[c].req.address # done[d].req.address
        /\ done[c].req.color # done[d].req.color
        /\ done[c].t # done[d].t
        /\ \E k \in CellsAt(canvas, done[c].req) :
               canvas[k].address = done[c].req.address

\* C10: when update_db has been called twice, one call after the other, with
\* the same request, and both calls returned Ok, the player table holds one
\* row, the row of the address, the canvas holds one row, the row of the
\* coordinate, both are the rows one call leaves, and the timestamp of both
\* is the one of the second call, not earlier than the one of the first.
C10_OverwriteKeepsSecond ==
    \A c \in Callers :
        (calls = 2 /\ done[c].ok /\ done[c].prev >= 0) =>
            /\ DOMAIN player = {done[c].req.address}
            /\ player[done[c].req.address] = RowOfUser(done[c].req, done[c].t)
            /\ Cardinality(DOMAIN canvas) = 1
            /\ DOMAIN canvas = CellsAt(canvas, done[c].req)
            /\ \A k \in DOMAIN canvas : canvas[k] = RowOfCell(done[c].req, done[c].t)
            /\ done[c].t >= done[c].prev

\* C10's case: the second of two calls with one request has returned Ok, a
\* second after the first did.
C10_Witness ==
    \E c \in Callers :
        /\ calls = 2 /\ done[c].ok /\ done[c].prev >= 0
        /\ done[c].prev < done[c].t
        /\ pc[c] = "idle" /\ ret[c].tag = "Ok"

\* The call of caller w returned Ok and, on the player row of its address and
\* on the cell of its coordinate, its own write is the last one applied.
RoundTripReady(w) == done[w].ok /\ intact[w].user /\ intact[w].pixel

\* C6: when an update_db call has returned Ok and its own writes are the last
\* ones applied to its address and to its coordinate, a get_pixel(x, y) whose
\* query is answered returns the pixel value (address, color, t), a
\* get_user(address) whose query is answered returns (address, x, y, color, t),
\* with one t, and t is not earlier than the time at which the call started.
C6_RoundTrip ==
    [][\A w, rd \in Callers :
         RoundTripReady(w) =>
            /\ GetPixel(rd, done[w].req.x, done[w].req.y) =>
                   ret'[rd] = Ok(PixelData(done[w].req.address, done[w].req.color,
                                           done[w].t))
            /\ GetUser(rd, done[w].req.address) =>
                   ret'[rd] = Ok([address |-> done[w].req.address,
                                  x |-> done[w].req.x.lo, y |-> done[w].req.y.lo,
                                  color |-> done[w].req.color,
                                  last_placed |-> done[w].t])
            /\ done[w].t >= done[w].started
      ]_vars

\* C6's case: after a second call of update_db returned Ok, get_pixel at its
\* coordinate, right of the middle, has returned its pixel value.
C6_Witness ==
    /\ RoundTripReady("c1") /\ calls = 2
    /\ done["c1"].req.x.lo = 1 /\ done["c1"].t > 0
    /\ asked["c2"] = Asked("get_pixel", "answered", TRUE)
    /\ ret["c2"] = Ok(PixelData(done["c1"].req.address, done["c1"].req.color,
                                done["c1"].t))

\* C9: a get_user returned InvalidUser exactly when its query was answered
\* and the player table had no row for the address; a get_pixel returned
\* NoPixelData exactly when its query was answered and no partition of the
\* canvas had a row for the coordinate; a read whose query failed or was
\* never made returned neither of the two; a read whose answered query met
\* no row returned neither a decode error nor Ok.
C9_NotFound ==
    \A rd \in Callers :
        LET h == asked[rd]
            absent == h.query = "answered" /\ ~h.row
        IN  /\ h.op = "get_user" => (ret[rd].tag = "InvalidUser" <=> absent)
            /\ h.op = "get_pixel" => (ret[rd].tag = "NoPixelData" <=> absent)
            /\ h.op = "get_user" => ret[rd].tag # "NoPixelData"
            /\ h.op = "get_pixel" => ret[rd].tag # "InvalidUser"
            /\ h.query \in {"failed", "unasked"} =>
                  ret[rd].tag \notin {"InvalidUser", "NoPixelData", "Ok"}
            /\ absent => ret[rd].tag \notin {"Ok", "ScyllaTypeErr"}

\* C9's case: get_pixel has returned NoPixelData for a coordinate without a
\* row while the tables hold the rows of another placement.
C9_Witness ==
    /\ ret["c2"].tag = "NoPixelData"
    /\ asked["c2"] = Asked("get_pixel", "answered", FALSE)
    /\ DOMAIN canvas # {} /\ DOMAIN player # {}

\* The last call caller c returned from, by the history of its reads: a read
\* sets asked, update_db clears it.
LastOp(c) ==
    IF asked[c].op # "none" THEN asked[c].op
    ELSE IF pc[c] = "idle" /\ ret[c] # NoRet THEN "update_db"
    ELSE "none"

\* C11 as stated: get_user returns a player record, InvalidUser or a decode
\* error; get_pixel returns a pixel value, NoPixelData or a decode error;
\* update_db returns Ok, InvalidUser, a range error or a transport error.
C11_DeclaredResultSets ==
    \A c \in Callers :
        /\ LastOp(c) = "get_user" =>
              ret[c].tag \in {"Ok", "InvalidUser", "ScyllaTypeErr"}
        /\ LastOp(c) = "get_pixel" =>
              ret[c].tag \in {"Ok", "NoPixelData", "ScyllaTypeErr"}
        /\ LastOp(c) = "update_db" =>
              ret[c].tag \in {"Ok", "InvalidUser", "TryFromIntError", "ScyllaQueryErr"}

\* C11, amended: get_user returns a player record, InvalidUser, a decode error
\* or a transport error; get_pixel returns a pixel value, NoPixelData, a decode
\* error, a range error or a transport error; update_db returns Ok,
\* InvalidUser, a range error or a transport error.  The range error of
\* get_pixel comes without a query, the transport error of a read only from a
\* query that failed.
C11_ResultSets ==
    \A c \in Callers :
        /\ LastOp(c) = "get_user" =>
              /\ ret[c].tag \in {"Ok", "InvalidUser", "ScyllaTypeErr", "ScyllaQueryErr"}
              /\ ret[c].tag = "ScyllaQueryErr" <=> asked[c].query = "failed"
        /\ LastOp(c) = "get_pixel" =>
              /\ ret[c].tag \in {"Ok", "NoPixelData", "ScyllaTypeErr",
                                 "TryFromIntError", "ScyllaQueryErr"}
              /\ ret[c].tag = "ScyllaQueryErr" <=> asked[c].query = "failed"
              /\ ret[c].tag = "TryFromIntError" <=> asked[c].query = "unasked"
        /\ LastOp(c) = "update_db" =>
              ret[c].tag \in {"Ok", "InvalidUser", "TryFromIntError", "ScyllaQueryErr"}

\* C11's case: get_pixel has returned the range error, without a query, while
\* the tables hold the rows of a placement.
C11_Witness ==
    /\ LastOp("c2") = "get_pixel" /\ ret["c2"].tag = "TryFromIntError"
    /\ asked["c2"].query = "unasked"
    /\ LastOp("c1") = "update_db" /\ ret["c1"].tag = "Ok"
    /\ DOMAIN canvas # {}

\* The objects the steps of init_table before step k create, and the
\* statements the preparations up to step k prepare.
CreatedBefore(k) == {InitTableSteps[j] : j \in 1..(k - 1)}
PreparedUpTo(k) == {PrepareSteps[j] : j \in 1..k}

\* C12: a manager exists only when the keyspace, the player table, the
\* pixel_data type and the canvas table exist and all four statements are
\* prepared; the schema steps run in that order, each after the ones before it
\* succeeded, and the preparations after all of them; a step that fails ends
\* the start without a manager and nothing more is created or prepared in that
\* start; and a call of get_user, get_pixel or update_db is made only on a
\* manager that was built so.
C12_StartupLifecycle ==
    [][/\ manager'.built =>
            /\ schema' = SchemaObjects
            /\ manager'.stmts = Statements
            /\ builder'.pc = "built"
       /\ \A k \in 1..4 :
            InitTableSteps[k] \in schema' \ schema =>
                /\ builder.pc = "init_table" /\ builder.k = k
                /\ CreatedBefore(k) \subseteq schema
       /\ (builder'.pc = "prepare" /\ builder' # builder) =>
            /\ schema' = SchemaObjects
            /\ builder'.stmts = PreparedUpTo(builder'.k - 1)
       /\ builder'.pc = "failed" => ~manager'.built
       /\ builder.pc = "failed" =>
            /\ schema' = schema
            /\ builder'.pc \in {"failed", "try_init"}
       /\ (calls' # calls \/ asked' # asked \/ pc' # pc) =>
            /\ manager.built /\ manager.stmts = Statements
            /\ schema = SchemaObjects
      ]_vars

\* C12's case: the third step of init_table failed in the first start: the
\* keyspace and the player table exist, nothing else, and there is no manager.
C12_Witness ==
    /\ builder.pc = "failed" /\ starts = 1
    /\ schema = {"keyspace", "player"}
    /\ ~manager.built

\* C13: a query of init_table changes no player row and no cell row and
\* removes nothing from the schema; answered by the database it succeeds,
\* also when what it creates exists, and then leaves the schema as it is;
\* and when init_table returns Ok the schema is complete, whatever part of it
\* existed before.
C13_InitTableIdempotent ==
    [][/\ (builder.pc = "init_table" /\ builder' # builder) =>
            /\ player' = player /\ canvas' = canvas
            /\ schema \subseteq schema'
       /\ (builder.pc = "init_table" /\ InitTable("answered")) =>
            /\ builder'.pc # "failed"
            /\ InitTableSteps[builder.k] \in schema => schema' = schema
       /\ (builder.pc = "init_table" /\ builder'.pc = "prepare") =>
            schema' = SchemaObjects
      ]_vars

\* C13's case: in the second start init_table has returned Ok on a database
\* that had the whole schema and the rows of a placement.
C13_Witness ==
    /\ starts = 2 /\ builder = Builder("prepare", 1, {})
    /\ schema = SchemaObjects
    /\ DOMAIN player # {} /\ DOMAIN canvas # {}

\* The writes of caller c's call that are on their way and whose future has
\* not resolved.
Outstanding(c) == {m \in net : m.c = c /\ m.live}

\* C14 as stated: update_db returns, with success or with failure, only when
\* neither of its two writes is outstanding any more.
C14_ReturnsAfterBoth ==
    [][\A c \in Callers : Returns(c) => Outstanding(c) = {}]_vars

\* C14, amended: update_db returns Ok only when both writes have succeeded
\* and none is outstanding; it returns the error as soon as one write has
\* failed, and a write of it still outstanding then stays on its way to the
\* database with nobody waiting for it.
C14_OkAfterBoth ==
    [][\A c \in Callers :
         Returns(c) =>
            /\ ret'[c].tag = "Ok" =>
                 /\ Outstanding(c) = {}
                 /\ wr[c] = [user |-> "ok", pixel |-> "ok"]
            /\ ret'[c].tag # "Ok" =>
                 /\ wr[c].user = "err" \/ wr[c].pixel = "err"
                 /\ \A m \in Outstanding(c) : Orphan(m) \in net'
                 /\ Cardinality(Outstanding(c)) <= 1
      ]_vars

\* C14's case: the player write of a call has failed while its cell write is
\* outstanding, so that update_db returns the error next; an earlier call
\* has left its rows.
C14_Witness ==
    \E c \in Callers :
        /\ pc[c] = "join"
        /\ wr[c] = [user |-> "err", pixel |-> "pending"]
        /\ \E m \in Outstanding(c) : m.tbl = "canvas"
        /\ DOMAIN player # {} /\ DOMAIN canvas # {}

\* No call is running and no write is on its way.
Quiet == net = {} /\ \A c \in Callers : pc[c] = "idle"

\* C15: when the one update_db call made so far has returned, no write is on
\* its way any more, and one of the two tables holds a row while the other
\* holds none, then the call returned the query error: a state with one of
\* the two rows and not the other is reached only through a failed call.
\* That both one-sided states are reached is C15_Witness.
C15_DivergenceOnlyOnError ==
    (calls = 1 /\ Quiet /\ (DOMAIN player = {}) # (DOMAIN canvas = {})) =>
        \E c \in Callers :
            /\ LastOp(c) = "update_db" /\ ret[c].tag = "ScyllaQueryErr"
            /\ \A d \in Callers \ {c} : ret[d] = NoRet

\* C15's case, both sides of it: two calls, for different addresses and
\* different coordinates, have each returned the error; of the first the
\* player row was applied and the cell row was not, of the second the cell
\* row was applied and the player row was not.
C15_Witness ==
    /\ calls = 2 /\ Quiet
    /\ \A c \in Callers : ret[c].tag = "ScyllaQueryErr"
    /\ DOMAIN player = {"A"}
    /\ player["A"].x = 0 /\ player["A"].y = 0
    /\ DOMAIN canvas = {<<"v_part3", 1, 0>>}
    /\ canvas[<<"v_part3", 1, 0>>].address = "B"

\* The primary key of the cell row a request writes.
CellKey(r) ==
    <<canvas_part[UpdatePindex(r.x, r.y, dim_mid) + 1], r.x.lo, r.y.lo>>

\* C16: when two update_db calls, concurrent or one after the other, have
\* both returned Ok and no other call was made, every player row is the
\* complete tuple (x, y, color, timestamp) written by one of the calls by its
\* address, and every cell row is the complete pixel value (address, color,
\* timestamp) written by one of the calls to its coordinate: no row has
\* fields of both calls.
C16_NoMixing ==
    (calls = 2 /\ \A c \in Callers : done[c].ok) =>
        /\ \A a \in DOMAIN player :
             \E c \in Callers :
                 /\ done[c].req.address = a
                 /\ player[a] = RowOfUser(done[c].req, done[c].t)
        /\ \A k \in DOMAIN canvas :
             \E c \in Callers :
                 /\ k = CellKey(done[c].req)
                 /\ canvas[k] = RowOfCell(done[c].req, done[c].t)

\* C16's case: two concurrent calls by one address, different in coordinate,
\* color and timestamp, have both returned Ok; the player row is the tuple of
\* the call that returned first.
C16_Witness ==
    \E c, d \in Callers :
        /\ calls = 2 /\ Concurrent(c, d) /\ d \in with[c]
        /\ done[c].req.address = done[d].req.address
        /\ done[c].req.x # done[d].req.x
        /\ done[c].req.color > done[d].req.color
        /\ done[c].t < done[d].t
        /\ player[done[c].req.address] = RowOfUser(done[c].req, done[c].t)
        /\ Cardinality(DOMAIN canvas) = 2

\* C17: in every reachable state, whatever update_db calls were made, failed
\* or succeeded, and in whatever order their writes were applied, no two cell
\* rows have the same coordinate, and the partition of every cell row is the
\* v_part of the quadrant of its coordinate about dim_mid.
C17_OnePartitionPerCoordinate ==
    /\ \A k, l \in DOMAIN canvas : (k[2] = l[2] /\ k[3] = l[3]) => k = l
    /\ \A k \in DOMAIN canvas :
           k[1] = QuadrantLabel(U32(0, k[2]), U32(0, k[3]), dim_mid)

\* C17's case: two calls have written the cells of two coordinates on
\* different sides of dim_mid; each is in the partition of its quadrant.
C17_Witness ==
    /\ calls = 2
    /\ DOMAIN canvas = {<<"v_part1", 0, 0>>, <<"v_part3", 1, 0>>}

\* The rows of a table that a step adds or changes.
Changed(old, new) == {k \in DOMAIN new : k \notin DOMAIN old \/ new[k] # old[k]}

\* C18: a step changes a row only by applying one write, and changes no row
\* but the one that write is keyed by; a write is put on its way only by an
\* update_db call, which puts one player write, keyed by the call's address,
\* and one cell write, keyed by the call's coordinate in its partition, and
\* the key of a write never changes; no row is ever removed; and a get_user
\* or get_pixel changes no row and puts no write on its way.
C18_Frame ==
    [][/\ DOMAIN player \subseteq DOMAIN player'
       /\ DOMAIN canvas \subseteq DOMAIN canvas'
       /\ Cardinality(Changed(player, player') \cup Changed(canvas, canvas')) <= 1
       /\ \A a \in Changed(player, player') :
            \E m \in net \ net' : m.tbl = "player" /\ m.key = a
       /\ \A k \in Changed(canvas, canvas') :
            \E m \in net \ net' : m.tbl = "canvas" /\ m.key = k
       /\ \A m \in net' \ net :
            IF m.live
            THEN /\ pc[m.c] = "idle" /\ pc'[m.c] = "join"
                 /\ m.tbl = "player" => m.key = req'[m.c].address
                 /\ m.tbl = "canvas" => m.key = CellKey(req'[m.c])
                 /\ \A n \in net' \ net : n.tbl = m.tbl => n = m
            ELSE \E n \in net \ net' : n.live /\ n.key = m.key /\ n.val = m.val
       /\ \A c \in Callers :
            (asked'[c] # asked[c] /\ asked'[c].op \in {"get_user", "get_pixel"}) =>
                player' = player /\ canvas' = canvas /\ net' = net
      ]_vars

\* C18's case: a second update_db call, for another address and coordinate,
\* has been applied, the rows of the first are still there, and a get_pixel
\* has found a row.
C18_Witness ==
    /\ calls = 2 /\ Quiet
    /\ ret["c1"].tag = "Ok"
    /\ DOMAIN player = {"A", "B"}
    /\ Cardinality(DOMAIN canvas) = 2
    /\ asked["c2"] = Asked("get_pixel", "answered", TRUE)

====
